---- MODULE Spec2Model ----
(***************************************************************************)
(* Model of quantitative_trading/backtester.py: the Position class, the    *)
(* spread-pair accounting functions (find_short_long, get_pnls,            *)
(* close_positions, open_positions), the signal (get_mday_returns) and the *)
(* day-by-day loop of simulate.                                            *)
(*                                                                         *)
(* Numbers.  Prices, cash and share counts are integers.  Quantities the   *)
(* program computes by division (returns, z, the cost-scaled pnl, the      *)
(* thresholds g, j, s and the cost zeta) are exact rationals <<n, d>> with *)
(* d > 0, compared by cross-multiplication.  NaN in a pnl column is 0/0.   *)
(* Dates are the 'YYYY-MM-DD' strings read as the integer YYYYMMDD (the    *)
(* string order of zero-padded dates is the integer order); the empty      *)
(* string is 0.                                                            *)
(***************************************************************************)
EXTENDS Integers, Sequences, FiniteSets, TLC

\* ---------------------------------------------------------------- bounds
\* Longest input series (rows of trading_df) explored.
MaxDays == 4

\* ------------------------------------------------------------- sentinels
\* '' for a name; '' for a date; np.nan for a number; None.
EmptyName == ""
EmptyDate == 0
NaN == -1
NaNPnl == <<0, 0>>
None == <<>>

\* The activation date '2022-01-01' of the trade period.
ActivationDate == 20220101

\* Most ledger rows a client of the API is followed to.
MaxLog == 1

\* ----------------------------------------------------------- input domains
DateSet == {20211230, 20211231, 20220103, 20220131, 20220228, 20220301}
KxiPriceSet == {2, 3, 4}
XlpPriceSet == {2, 4}
NtSet == {1000, 1500}
GSet == {<<1, 3>>}
JSet == {<<1, 4>>, <<1, 1>>}
SSet == {None, <<0, 1>>, <<1, 10>>}
ZetaSet == {<<0, 1>>, <<1, 10>>}
MSet == {1}

\* Arguments of the calls a client makes on the two Positions and the pair.
ApiLegs == {"long", "short"}
ApiNames == {"kxi", "xlp", "spy"}
ApiDirections == {"long", "short", "flat"}
ApiDates == {20220103}
ApiCash == {10, 15}
ApiPrices == {2, 4}

RowSet == [date : DateSet, KXI_adj_close : KxiPriceSet, XLP_adj_close : XlpPriceSet, N_t : NtSet]

\* ------------------------------------------------------------- arithmetic
Abs(x) == IF x < 0 THEN -x ELSE x

\* Python's round() of the quotient a / b (a >= 0, b > 0): to the nearest
\* integer, a tie going to the even neighbour.
RoundDiv(a, b) ==
    LET q == a \div b
        r == a % b
    IN  IF 2 * r < b THEN q
        ELSE IF 2 * r > b THEN q + 1
        ELSE IF q % 2 = 0 THEN q ELSE q + 1

\* Python truthiness of the stop-loss limit s: None and 0 are both falsy.
Truthy(x) == x # None /\ x[1] # 0

\* ------------------------------------------------------------------ dates
IsLeap(y) == (y % 4 = 0 /\ y % 100 # 0) \/ y % 400 = 0

DaysInMonth(y, m) ==
    IF m = 2 THEN (IF IsLeap(y) THEN 29 ELSE 28)
    ELSE IF m \in {4, 6, 9, 11} THEN 30 ELSE 31

\* strptime(date) + relativedelta(months=1), then strftime: the same day of
\* the next month, clipped to that month's last day.
AddMonth(d) ==
    LET y  == d \div 10000
        m  == (d \div 100) % 100
        dd == d % 100
        y2 == IF m = 12 THEN y + 1 ELSE y
        m2 == IF m = 12 THEN 1 ELSE m + 1
        last == DaysInMonth(y2, m2)
    IN  y2 * 10000 + m2 * 100 + (IF dd > last THEN last ELSE dd)

\* --------------------------------------------------------------- Position
\* Position.__init__: direction fixed, every other field at its sentinel.
NewPosition(ptype) ==
    [type |-> IF ptype = "short" THEN -1 ELSE 1,
     name |-> EmptyName, date |-> EmptyDate,
     entry_cash |-> NaN, price |-> NaN, amount |-> NaN]

\* Position.is_open: the truthiness of name.
is_open(pos) == pos.name # EmptyName

\* Position.get_pnl: type * amount * price - type * entry_cash.
get_pnl(pos, price) ==
    LET initial_val == pos.type * pos.entry_cash
        new_mtm == pos.type * pos.amount * price
    IN  new_mtm - initial_val

\* Position.get_pnl as a call on any Position: [nan, pnl, err].  The method
\* has no is_open test; on a closed Position the arithmetic runs on the
\* np.nan fields and the value returned is nan, no exception is raised.
Position_get_pnl(pos, price) ==
    IF pos.amount = NaN \/ pos.entry_cash = NaN
    THEN [nan |-> TRUE, pnl |-> 0, err |-> ""]
    ELSE [nan |-> FALSE, pnl |-> get_pnl(pos, price), err |-> ""]

\* Mutant of Position.open: entry_cash is stored as the cost of the whole
\* shares bought, amount * price.
Position_open_ActualCost(pos, name, date, entry_cash, price) ==
    IF is_open(pos) THEN [pos |-> pos, err |-> "AssertionError"]
    ELSE IF name \notin {"kxi", "xlp"} THEN [pos |-> pos, err |-> "ValueError"]
    ELSE [pos |-> [pos EXCEPT !.name = name, !.date = date,
                              !.entry_cash = RoundDiv(entry_cash, price) * price,
                              !.price = price,
                              !.amount = RoundDiv(entry_cash, price)],
          err |-> ""]

\* Mutant of Position.open: the fields are assigned before the name is checked.
Position_open_AssignsFirst(pos, name, date, entry_cash, price) ==
    IF is_open(pos) THEN [pos |-> pos, err |-> "AssertionError"]
    ELSE IF name \notin {"kxi", "xlp"}
    THEN [pos |-> [pos EXCEPT !.date = date, !.entry_cash = entry_cash,
                              !.price = price,
                              !.amount = RoundDiv(entry_cash, price)],
          err |-> "ValueError"]
    ELSE [pos |-> [pos EXCEPT !.name = name, !.date = date,
                              !.entry_cash = entry_cash, !.price = price,
                              !.amount = RoundDiv(entry_cash, price)],
          err |-> ""]

\* Position.open: [pos, err]; err names the exception raised, "" if none.
Position_open(pos, name, date, entry_cash, price) ==
    IF is_open(pos) THEN [pos |-> pos, err |-> "AssertionError"]
    ELSE IF name \notin {"kxi", "xlp"} THEN [pos |-> pos, err |-> "ValueError"]
    ELSE [pos |-> [pos EXCEPT !.name = name, !.date = date,
                              !.entry_cash = entry_cash, !.price = price,
                              !.amount = RoundDiv(entry_cash, price)],
          err |-> ""]

\* Mutant of Position.close: the name is not cleared.
Position_close_KeepsName(pos, price) ==
    IF ~is_open(pos) THEN [pos |-> pos, pnl |-> 0, err |-> "AssertionError"]
    ELSE [pos |-> [pos EXCEPT !.date = EmptyDate, !.entry_cash = NaN,
                              !.price = NaN, !.amount = NaN],
          pnl |-> get_pnl(pos, price),
          err |-> ""]

\* Mutant of Position.close: the share count is not cleared.
Position_close_KeepsAmount(pos, price) ==
    IF ~is_open(pos) THEN [pos |-> pos, pnl |-> 0, err |-> "AssertionError"]
    ELSE [pos |-> [pos EXCEPT !.name = EmptyName, !.date = EmptyDate,
                              !.entry_cash = NaN, !.price = NaN],
          pnl |-> get_pnl(pos, price),
          err |-> ""]

\* Position.close: [pos, pnl, err].
Position_close(pos, price) ==
    IF ~is_open(pos) THEN [pos |-> pos, pnl |-> 0, err |-> "AssertionError"]
    ELSE [pos |-> [pos EXCEPT !.name = EmptyName, !.date = EmptyDate,
                              !.entry_cash = NaN, !.price = NaN, !.amount = NaN],
          pnl |-> get_pnl(pos, price),
          err |-> ""]

\* ------------------------------------------------- spread-pair accounting
\* Mutant of find_short_long: the instrument is read off the long leg.
find_short_long_ByLongLeg(short_pos, long_pos, kxi_price, xlp_price) ==
    IF long_pos.name = "kxi" THEN <<kxi_price, xlp_price>>
    ELSE <<xlp_price, kxi_price>>

\* find_short_long: [short_price, long_price] by the short leg's instrument.
find_short_long(short_pos, long_pos, kxi_price, xlp_price) ==
    IF short_pos.name = "kxi" THEN <<kxi_price, xlp_price>>
    ELSE <<xlp_price, kxi_price>>

\* get_pnls: [flag, pnl, err].  flag is the boolean the code returns first:
\* FALSE with pnl 0 on the stop-loss return, TRUE with the total pnl otherwise.
get_pnls(short_pos, long_pos, kxi_price, xlp_price, zeta, s) ==
    IF (~is_open(short_pos)) \/ (~is_open(long_pos))
    THEN [flag |-> TRUE, pnl |-> NaNPnl, err |-> "AssertionError"]
    ELSE
    LET prices == find_short_long(short_pos, long_pos, kxi_price, xlp_price)
        pnl_short == get_pnl(short_pos, prices[1])
        pnl_long == get_pnl(long_pos, prices[2])
        pnl == <<(pnl_short + pnl_long) * (zeta[2] - zeta[1]), zeta[2]>>
        gross_cash == short_pos.entry_cash * 2
    IN  IF pnl[1] < 0 /\ Truthy(s)
           /\ Abs(pnl[1]) * s[2] > s[1] * gross_cash * pnl[2]
        THEN [flag |-> FALSE, pnl |-> <<0, 1>>, err |-> ""]
        ELSE [flag |-> TRUE, pnl |-> pnl, err |-> ""]

\* Mutant of close_positions: get_pnls is given a stop-loss limit of 10%
\* instead of None, so the loss of a forced close is zeroed again.
close_positions_Rechecks(trade_log, date, short_pos, long_pos, kxi_price, xlp_price, zeta, reason) ==
    LET isShort == short_pos.name = "kxi"
        kxi_amt == IF isShort THEN short_pos.amount ELSE long_pos.amount
        xlp_amt == IF isShort THEN long_pos.amount ELSE short_pos.amount
        pnl_ret == get_pnls(short_pos, long_pos, kxi_price, xlp_price, zeta, <<1, 10>>)
        row == [date |-> date, position_status |-> "CLOSE",
                position_type |-> IF isShort THEN "short" ELSE "long",
                gross_cash |-> short_pos.entry_cash * 2,
                pnl |-> pnl_ret.pnl, kxi_price |-> kxi_price, kxi_amount |-> kxi_amt,
                xlp_price |-> xlp_price, xlp_amount |-> xlp_amt, Reason |-> reason]
    IN  IF pnl_ret.err # ""
        THEN [trade_log |-> trade_log, short_pos |-> short_pos,
              long_pos |-> long_pos, err |-> pnl_ret.err]
        ELSE [trade_log |-> Append(trade_log, row),
              short_pos |-> Position_close(short_pos, kxi_price).pos,
              long_pos |-> Position_close(long_pos, kxi_price).pos, err |-> ""]

\* close_positions: [trade_log, short_pos, long_pos, err].  The row is built
\* and appended before the legs are closed; get_pnls is called with s = None.
close_positions(trade_log, date, short_pos, long_pos, kxi_price, xlp_price, zeta, reason) ==
    LET isShort == short_pos.name = "kxi"
        position_type == IF isShort THEN "short" ELSE "long"
        kxi_amt == IF isShort THEN short_pos.amount ELSE long_pos.amount
        xlp_amt == IF isShort THEN long_pos.amount ELSE short_pos.amount
        short_price == IF isShort THEN kxi_price ELSE xlp_price
        long_price == IF isShort THEN xlp_price ELSE kxi_price
        gross_cash == short_pos.entry_cash * 2
        pnl_ret == get_pnls(short_pos, long_pos, kxi_price, xlp_price, zeta, None)
        row == [date |-> date, position_status |-> "CLOSE",
                position_type |-> position_type, gross_cash |-> gross_cash,
                pnl |-> pnl_ret.pnl, kxi_price |-> kxi_price, kxi_amount |-> kxi_amt,
                xlp_price |-> xlp_price, xlp_amount |-> xlp_amt, Reason |-> reason]
        sc == Position_close(short_pos, short_price)
        lc == Position_close(long_pos, long_price)
    IN  IF pnl_ret.err # ""
        THEN [trade_log |-> trade_log, short_pos |-> short_pos,
              long_pos |-> long_pos, err |-> pnl_ret.err]
        ELSE [trade_log |-> Append(trade_log, row), short_pos |-> sc.pos,
              long_pos |-> lc.pos, err |-> ""]

\* open_positions: [trade_log, short_pos, long_pos, err].  The long leg is
\* opened first, then the short leg, then the OPEN row is appended.
open_positions(trade_log, short_pos, long_pos, kxi_price, xlp_price, date, entry_cash, position_type) ==
    LET isLong == position_type = "long"
        lo == IF isLong THEN Position_open(long_pos, "kxi", date, entry_cash, kxi_price)
              ELSE Position_open(long_pos, "xlp", date, entry_cash, xlp_price)
        so == IF isLong THEN Position_open(short_pos, "xlp", date, entry_cash, xlp_price)
              ELSE Position_open(short_pos, "kxi", date, entry_cash, kxi_price)
        kxi_amt == IF isLong THEN lo.pos.amount ELSE so.pos.amount
        xlp_amt == IF isLong THEN so.pos.amount ELSE lo.pos.amount
        row == [date |-> date, position_status |-> "OPEN",
                position_type |-> position_type, gross_cash |-> entry_cash * 2,
                pnl |-> NaNPnl, kxi_price |-> kxi_price, kxi_amount |-> kxi_amt,
                xlp_price |-> xlp_price, xlp_amount |-> xlp_amt, Reason |-> "None"]
    IN  IF position_type \notin {"short", "long"}
        THEN [trade_log |-> trade_log, short_pos |-> short_pos,
              long_pos |-> long_pos, err |-> "ValueError"]
        ELSE IF lo.err # ""
        THEN [trade_log |-> trade_log, short_pos |-> short_pos,
              long_pos |-> long_pos, err |-> lo.err]
        ELSE IF so.err # ""
        THEN [trade_log |-> trade_log, short_pos |-> short_pos,
              long_pos |-> lo.pos, err |-> so.err]
        ELSE [trade_log |-> Append(trade_log, row), short_pos |-> so.pos,
              long_pos |-> lo.pos, err |-> ""]

\* ----------------------------------------------------------------- signal
\* get_mday_returns: [kxi_ret, xlp_ret], each current / old - 1 as a rational,
\* old being the row m positions before the current one.  df holds the rows
\* that precede the current row (the most recent last); with fewer than m of
\* them the lookup df.loc[index - m] raises KeyError (see Iteration).
get_mday_returns(df, row, m) ==
    LET subdf == df[Len(df) - m + 1]
        old_kxi == subdf.KXI_adj_close
        old_xlp == subdf.XLP_adj_close
    IN  << <<row.KXI_adj_close - old_kxi, old_kxi>>,
           <<row.XLP_adj_close - old_xlp, old_xlp>> >>

\* rets[0] - rets[1]
RetDiff(rets) ==
    <<rets[1][1] * rets[2][2] - rets[2][1] * rets[1][2], rets[1][2] * rets[2][2]>>

\* Mutant of AbsLt: the exit test taken as 'at most j'.
AbsLt_OrEqual(z, t) == Abs(z[1]) * t[2] <= t[1] * z[2]

\* Mutant of AbsLt: the exit test with the comparison turned round.
AbsLt_Reversed(z, t) == Abs(z[1]) * t[2] > t[1] * z[2]

\* Comparisons of the rational z with a threshold t.
AbsGt(z, t) == Abs(z[1]) * t[2] > t[1] * z[2]
AbsLt(z, t) == Abs(z[1]) * t[2] < t[1] * z[2]
Gt(z, t) == z[1] * t[2] > t[1] * z[2]
LtNeg(z, t) == z[1] * t[2] < (-t[1]) * z[2]

\* ------------------------------------------------------------- simulation
VARIABLES g, j, s, M, zeta,        \* parameters of simulate
          trading_df,              \* the last M rows read before the current one
          i,                       \* number of rows read
          date, kxi, xlp, N_t, z,  \* loop locals, kept from one day to the next
          stop_loss_date, long_pos, short_pos, trade_log,
          pc,                      \* "loop", "done" (returned) or "error" (raised)
          step,                    \* the path the last iteration took
          err,                     \* the exception the last step raised, "" if none
          call                     \* the call a client of the API made last

vars == <<g, j, s, M, zeta, trading_df, i, date, kxi, xlp, N_t, z,
          stop_loss_date, long_pos, short_pos, trade_log, pc, step, err, call>>

\* The result of one call, tagged with the path taken.
Outcome(res, label) ==
    [trade_log |-> res.trade_log, short_pos |-> res.short_pos,
     long_pos |-> res.long_pos, err |-> res.err, step |-> label]

\* Mutant of Flip: the new pair is opened without closing the old one.
Flip_OpenOnly(log, sp, lp, k, x, d, trade_cash, zt, position_type) ==
    open_positions(log, sp, lp, k, x, d, trade_cash, position_type)

\* Mutant of Flip: the old pair is closed and the new one never opened.
Flip_CloseOnly(log, sp, lp, k, x, d, trade_cash, zt, position_type) ==
    close_positions(log, d, sp, lp, k, x, zt, "Standard")

\* close_positions followed by open_positions (a flip); the open is skipped
\* when the close raised.
Flip(log, sp, lp, k, x, d, trade_cash, zt, position_type) ==
    LET c == close_positions(log, d, sp, lp, k, x, zt, "Standard")
    IN  IF c.err # "" THEN c
        ELSE open_positions(c.trade_log, c.short_pos, c.long_pos, k, x, d,
                            trade_cash, position_type)

\* Step 3 of the loop body: the entry / hold / flip / exit decision on zz.
Decide(log, sp, lp, k, x, d, trade_cash, zz, gg, jj, zt) ==
    LET same == [trade_log |-> log, short_pos |-> sp, long_pos |-> lp, err |-> ""]
    IN  IF AbsGt(zz, gg) THEN
            IF Gt(zz, gg) THEN
                IF ~is_open(lp) /\ ~is_open(sp)
                THEN Outcome(open_positions(log, sp, lp, k, x, d, trade_cash, "short"),
                             "enter_short")
                ELSE IF sp.name = "kxi" THEN Outcome(same, "hold_short")
                ELSE Outcome(Flip(log, sp, lp, k, x, d, trade_cash, zt, "short"),
                             "flip_short")
            ELSE IF LtNeg(zz, gg) THEN
                IF ~is_open(lp) /\ ~is_open(sp)
                THEN Outcome(open_positions(log, sp, lp, k, x, d, trade_cash, "long"),
                             "enter_long")
                ELSE IF lp.name = "kxi" THEN Outcome(same, "hold_long")
                ELSE Outcome(Flip(log, sp, lp, k, x, d, trade_cash, zt, "long"),
                             "flip_long")
            ELSE Outcome(same, "none")
        ELSE IF AbsLt(zz, jj) /\ is_open(lp) /\ is_open(sp)
        THEN Outcome(close_positions(log, d, sp, lp, k, x, zt, "Standard"), "flatten")
        ELSE Outcome(same, "none")

\* Mutant of BeforeTradePeriod: the trade period starts a day early.
BeforeTradePeriod_DayEarly(d) == d < 20211231

\* Mutant of TradeCash: the notional divided by 10.
TradeCash_Tenth(row) == row.N_t \div 10

\* "only trade during trade period": TRUE when the day is before it.
BeforeTradePeriod(d) == d < ActivationDate

\* trade_cash = row.N_t / 100 (the notionals of NtSet are multiples of 100).
TradeCash(row) == row.N_t \div 100

\* Mutant of InCoolDown: the comparison with the end date inverted.
InCoolDown_Inverted(sld, d) == sld # EmptyDate /\ d = sld

\* The stop-loss month skipping: TRUE when the day is skipped.
InCoolDown(sld, d) == sld # EmptyDate /\ d # sld

\* Mutant of StopLossHit: the first element read as the docstring of get_pnls
\* words it (true = stop loss met).
StopLossHit_AsDocumented(sp, lp, k, x, zt, ss) ==
    is_open(lp) /\ is_open(sp) /\ get_pnls(sp, lp, k, x, zt, ss).flag

\* The stop-loss check of the loop body: TRUE when the pair is to be
\* force-closed (both legs open and get_pnls returned a false first element).
StopLossHit(sp, lp, k, x, zt, ss) ==
    is_open(lp) /\ is_open(sp) /\ ~get_pnls(sp, lp, k, x, zt, ss).flag

\* One iteration of the loop of simulate on row, from the loop-carried state st.
Iteration(st, row) ==
    LET d == row.date
        k == row.KXI_adj_close
        x == row.XLP_adj_close
        trade_cash == TradeCash(row)
    IN  IF BeforeTradePeriod(d)
        THEN [st EXCEPT !.date = d, !.step = "warmup"]
        ELSE IF InCoolDown(st.stop_loss_date, d)
        THEN [st EXCEPT !.date = d, !.step = "cooldown"]
        ELSE
        LET st1 == [st EXCEPT !.date = d, !.stop_loss_date = EmptyDate,
                              !.kxi = k, !.xlp = x, !.N_t = row.N_t]
        IN  IF StopLossHit(st.short_pos, st.long_pos, k, x, st.zeta, st.s)
            THEN LET c == close_positions(st.trade_log, d, st.short_pos, st.long_pos,
                                          k, x, st.zeta, "STOP LOSS")
                 IN  [st1 EXCEPT !.stop_loss_date = AddMonth(d),
                                 !.trade_log = c.trade_log,
                                 !.short_pos = c.short_pos,
                                 !.long_pos = c.long_pos,
                                 !.err = c.err, !.step = "stop_loss"]
            ELSE IF Len(st.trading_df) < st.M
            THEN [st1 EXCEPT !.err = "KeyError", !.step = "lookback"]
            ELSE
            LET zz == RetDiff(get_mday_returns(st.trading_df, row, st.M))
                dec == Decide(st.trade_log, st.short_pos, st.long_pos, k, x, d,
                              trade_cash, zz, st.g, st.j, st.zeta)
            IN  [st1 EXCEPT !.z = zz,
                            !.trade_log = dec.trade_log,
                            !.short_pos = dec.short_pos,
                            !.long_pos = dec.long_pos,
                            !.err = dec.err, !.step = dec.step]

\* The rows read so far that a later lookback can still reach.
Remember(df, row, m) ==
    IF Len(df) < m THEN Append(df, row) ELSE Append(Tail(df), row)

Init ==
    /\ g \in GSet /\ j \in JSet /\ s \in SSet /\ M \in MSet /\ zeta \in ZetaSet
    /\ trading_df = <<>>
    /\ i = 0
    /\ date = EmptyDate /\ kxi = NaN /\ xlp = NaN /\ N_t = NaN /\ z = NaNPnl
    /\ stop_loss_date = EmptyDate
    /\ long_pos = NewPosition("long")
    /\ short_pos = NewPosition("short")
    /\ trade_log = <<>>
    /\ pc = "loop"
    /\ step = "start"
    /\ err = ""
    /\ call = None

\* The loop-carried state of simulate as one record.
LoopState ==
    [g |-> g, j |-> j, s |-> s, M |-> M, zeta |-> zeta,
     trading_df |-> trading_df, date |-> date, kxi |-> kxi,
     xlp |-> xlp, N_t |-> N_t, z |-> z,
     stop_loss_date |-> stop_loss_date,
     long_pos |-> long_pos, short_pos |-> short_pos,
     trade_log |-> trade_log, err |-> "", step |-> step]

\* The loop reads the next row of the (date-ascending) series.
Iterate ==
    /\ pc = "loop"
    /\ i < MaxDays
    /\ \E row \in RowSet :
        /\ row.date > date
        /\ \E out \in {Iteration(LoopState, row)} :
               /\ date' = out.date /\ kxi' = out.kxi /\ xlp' = out.xlp
               /\ N_t' = out.N_t /\ z' = out.z
               /\ stop_loss_date' = out.stop_loss_date
               /\ long_pos' = out.long_pos /\ short_pos' = out.short_pos
               /\ trade_log' = out.trade_log
               /\ step' = out.step
               /\ err' = out.err
               /\ pc' = IF out.err # "" THEN "error" ELSE "loop"
               /\ trading_df' = Remember(trading_df, row, M)
    /\ i' = i + 1
    /\ UNCHANGED <<g, j, s, M, zeta, call>>

\* Mutant of EndOfSeries: the final close is forgotten.
EndOfSeries_NoClose(log, d, sp, lp, k, x, zt) ==
    Outcome([trade_log |-> log, short_pos |-> sp, long_pos |-> lp, err |-> ""], "end")

\* "times up, close positions": what simulate does after the loop.
EndOfSeries(log, d, sp, lp, k, x, zt) ==
    IF is_open(sp) \/ is_open(lp)
    THEN Outcome(close_positions(log, d, sp, lp, k, x, zt, "Standard"), "end_close")
    ELSE Outcome([trade_log |-> log, short_pos |-> sp, long_pos |-> lp, err |-> ""],
                 "end")

\* After the last row: close what is still open, then return the ledger.
PeriodEnd ==
    /\ pc = "loop"
    /\ \E c \in {EndOfSeries(trade_log, date, short_pos, long_pos, kxi, xlp, zeta)} :
           /\ trade_log' = c.trade_log
           /\ short_pos' = c.short_pos
           /\ long_pos' = c.long_pos
           /\ step' = c.step
           /\ err' = c.err
           /\ pc' = IF c.err # "" THEN "error" ELSE "done"
    /\ UNCHANGED <<g, j, s, M, zeta, trading_df, i, date, kxi, xlp, N_t, z,
                   stop_loss_date, call>>

Next == Iterate \/ PeriodEnd

Spec == Init /\ [][Next]_vars

\* ------------------------------------------------------ client of the API
\* The two Positions and the ledger as simulate creates them, then driven by
\* a client that may open, close and value either leg, value the pair and
\* open the pair, with any argument, in any order.  call records the call made
\* last: its name, the leg, and the arguments the exceptions depend on.
ClientInit ==
    /\ g \in GSet /\ j \in {<<1, 4>>} /\ s \in {<<1, 10>>} /\ M \in MSet
    /\ zeta \in {<<1, 10>>}
    /\ trading_df = <<>>
    /\ i = 0
    /\ date = EmptyDate /\ kxi = NaN /\ xlp = NaN /\ N_t = NaN /\ z = NaNPnl
    /\ stop_loss_date = EmptyDate
    /\ long_pos = NewPosition("long")
    /\ short_pos = NewPosition("short")
    /\ trade_log = <<>>
    /\ pc = "client"
    /\ step = "start"
    /\ err = ""
    /\ call = None

Leg(leg) == IF leg = "long" THEN long_pos ELSE short_pos

\* What a call on one leg leaves: that leg replaced, the other untouched.
LegBecomes(leg, pos) ==
    /\ long_pos' = IF leg = "long" THEN pos ELSE long_pos
    /\ short_pos' = IF leg = "short" THEN pos ELSE short_pos

ClientFrame ==
    UNCHANGED <<g, j, s, M, zeta, trading_df, i, date, kxi, xlp, N_t, z,
                stop_loss_date, pc, step>>

\* leg.open(name, date, entry_cash, price)
CallOpen ==
    /\ pc = "client"
    /\ \E leg \in ApiLegs, name \in ApiNames, d \in ApiDates,
          entry_cash \in ApiCash, price \in ApiPrices :
        \E r \in {Position_open(Leg(leg), name, d, entry_cash, price)} :
            /\ LegBecomes(leg, r.pos)
            /\ err' = r.err
            /\ call' = [op |-> "open", leg |-> leg, name |-> name]
    /\ UNCHANGED trade_log
    /\ ClientFrame

\* leg.close(price)
CallClose ==
    /\ pc = "client"
    /\ \E leg \in ApiLegs, price \in ApiPrices :
        \E r \in {Position_close(Leg(leg), price)} :
            /\ LegBecomes(leg, r.pos)
            /\ err' = r.err
            /\ call' = [op |-> "close", leg |-> leg]
    /\ UNCHANGED trade_log
    /\ ClientFrame

\* leg.get_pnl(price)
CallGetPnl ==
    /\ pc = "client"
    /\ \E leg \in ApiLegs, price \in ApiPrices :
        \E r \in {Position_get_pnl(Leg(leg), price)} :
            /\ err' = r.err
            /\ call' = [op |-> "get_pnl", leg |-> leg, nan |-> r.nan]
    /\ UNCHANGED <<long_pos, short_pos, trade_log>>
    /\ ClientFrame

\* get_pnls(short_pos, long_pos, kxi_price, xlp_price, zeta, s)
CallGetPnls ==
    /\ pc = "client"
    /\ \E k \in ApiPrices, x \in ApiPrices :
        \E r \in {get_pnls(short_pos, long_pos, k, x, zeta, s)} :
            /\ err' = r.err
            /\ call' = [op |-> "get_pnls"]
    /\ UNCHANGED <<long_pos, short_pos, trade_log>>
    /\ ClientFrame

\* open_positions(trade_log, short_pos, long_pos, kxi_price, xlp_price, date,
\*                entry_cash, position_type)
CallOpenPositions ==
    /\ pc = "client"
    /\ Len(trade_log) < MaxLog
    /\ \E k \in ApiPrices, x \in ApiPrices, d \in ApiDates,
          entry_cash \in ApiCash, position_type \in ApiDirections :
        \E r \in {open_positions(trade_log, short_pos, long_pos, k, x, d,
                                  entry_cash, position_type)} :
            /\ trade_log' = r.trade_log
            /\ short_pos' = r.short_pos
            /\ long_pos' = r.long_pos
            /\ err' = r.err
            /\ call' = [op |-> "open_positions", position_type |-> position_type]
    /\ ClientFrame

ClientNext ==
    \/ CallOpen \/ CallClose \/ CallGetPnl
    \/ CallGetPnls \/ CallOpenPositions

ClientSpec == ClientInit /\ [][ClientNext]_vars

\* ------------------------------------------------ vocabulary of the claims
\* The row read last, and the last row of the ledger.
CurRow == trading_df[Len(trading_df)]
LastRow == trade_log[Len(trade_log)]
Closed(pos) == pos.name = EmptyName

\* The step is one iteration of the loop.
DayRead == pc = "loop" /\ i' = i + 1

\* The day read is processed: on or after 2022-01-01 and not skipped by a
\* cool-down.
Processed ==
    /\ DayRead
    /\ CurRow'.date >= 20220101
    /\ (stop_loss_date = EmptyDate \/ CurRow'.date = stop_loss_date)

\* The step appends exactly n rows to the ledger and changes no earlier row.
Appended(n) ==
    /\ Len(trade_log') = Len(trade_log) + n
    /\ SubSeq(trade_log', 1, Len(trade_log)) = trade_log

\* The stop-loss check of the day read triggers on the open pair.
CheckTriggers ==
    ~get_pnls(short_pos, long_pos, CurRow'.KXI_adj_close, CurRow'.XLP_adj_close,
              zeta, s).flag

BothOpen == is_open(long_pos) /\ is_open(short_pos)
BothClosed == Closed(long_pos) /\ Closed(short_pos)

\* ------------------------------------------------------------------ claims
\* C1: on a processed day where both legs are open and the stop-loss check
\* triggers, the cool-down end date becomes the current date plus one
\* calendar month, exactly one row is appended (a CLOSE with reason
\* 'STOP LOSS' dated that day), both legs end closed and nothing is opened.
C1_StopLossDay ==
    [][(Processed /\ BothOpen /\ CheckTriggers)
        => /\ stop_loss_date' = AddMonth(CurRow'.date)
           /\ Appended(1)
           /\ LastRow'.position_status = "CLOSE"
           /\ LastRow'.Reason = "STOP LOSS"
           /\ LastRow'.date = CurRow'.date
           /\ BothClosed'
           /\ pc' = "loop"]_vars

\* A stop-loss on 2022-01-31 has just closed the pair; the cool-down ends on
\* 2022-02-28.
C1_Witness ==
    /\ pc = "loop" /\ trade_log # <<>>
    /\ LastRow.Reason = "STOP LOSS" /\ LastRow.date = date
    /\ date = 20220131 /\ stop_loss_date = 20220228
    /\ BothClosed

\* C2: after a stop-loss, the first day dated on or after the cool-down end
\* date clears the cool-down and is evaluated normally (its prices are read).
C2_CoolDownEnds ==
    [][(DayRead /\ stop_loss_date # EmptyDate /\ CurRow'.date >= stop_loss_date)
        => /\ stop_loss_date' = EmptyDate
           /\ kxi' = CurRow'.KXI_adj_close
           /\ xlp' = CurRow'.XLP_adj_close]_vars

\* C3: every ledger row that follows a CLOSE row with reason 'STOP LOSS'
\* dated d is dated on or after d plus one calendar month, and no pair is
\* open while a cool-down is set.
C3_CoolDownQuiet ==
    /\ \A a \in 1..Len(trade_log) : \A b \in 1..Len(trade_log) :
          (a < b /\ trade_log[a].Reason = "STOP LOSS")
              => trade_log[b].date >= AddMonth(trade_log[a].date)
    /\ (stop_loss_date # EmptyDate) => BothClosed

\* A row was appended after a stop-loss row.
C3_Witness ==
    \E a \in 1..Len(trade_log) :
        trade_log[a].Reason = "STOP LOSS" /\ a < Len(trade_log)

\* Rationals <<n, d>>, d > 0, as the claims compare them.
RLt(a, b) == a[1] * b[2] < b[1] * a[2]
RLe(a, b) == a[1] * b[2] <= b[1] * a[2]
RAbs(a) == <<Abs(a[1]), a[2]>>
RNeg(a) == <<-a[1], a[2]>>

\* amt is a nearest integer to (n / 100) / price.
IsRounded(amt, n, price) == 2 * Abs(amt * price * 100 - n) <= price * 100

\* The legs sp, lp are open as a spread of direction dir, opened on row:
\* short-spread shorts kxi and buys xlp, long-spread the reverse; each leg
\* has entry_cash = N_t / 100 at the row's price of its instrument.
LegsOpenAs(sp, lp, row, dir) ==
    LET kLeg == IF dir = "short" THEN sp ELSE lp
        xLeg == IF dir = "short" THEN lp ELSE sp
    IN  /\ kLeg.name = "kxi" /\ xLeg.name = "xlp"
        /\ kLeg.price = row.KXI_adj_close /\ xLeg.price = row.XLP_adj_close
        /\ kLeg.date = row.date /\ xLeg.date = row.date
        /\ kLeg.entry_cash * 100 = row.N_t /\ xLeg.entry_cash * 100 = row.N_t
        /\ IsRounded(kLeg.amount, row.N_t, row.KXI_adj_close)
        /\ IsRounded(xLeg.amount, row.N_t, row.XLP_adj_close)
        /\ sp.type = -1 /\ lp.type = 1

\* r is the OPEN row of a spread of direction dir opened on row.
IsOpenRow(r, row, dir) ==
    /\ r.position_status = "OPEN" /\ r.position_type = dir
    /\ r.date = row.date /\ r.Reason = "None" /\ r.pnl = NaNPnl
    /\ r.kxi_price = row.KXI_adj_close /\ r.xlp_price = row.XLP_adj_close
    /\ r.gross_cash * 100 = 2 * row.N_t
    /\ IsRounded(r.kxi_amount, row.N_t, row.KXI_adj_close)
    /\ IsRounded(r.xlp_amount, row.N_t, row.XLP_adj_close)

\* r is a CLOSE row dated as row with the given reason.
IsCloseRow(r, row, reason) ==
    r.position_status = "CLOSE" /\ r.Reason = reason /\ r.date = row.date

\* The day read is processed, its signal z exists (the lookback row is in
\* the series) and the stop-loss check does not trigger.
NoStopDay ==
    Processed /\ Len(trading_df) >= M /\ ~(BothOpen /\ CheckTriggers)

\* The step closes the old pair and opens one of direction dir.
FlippedTo(dir) ==
    /\ Appended(2)
    /\ IsCloseRow(trade_log'[Len(trade_log) + 1], CurRow', "Standard")
    /\ trade_log'[Len(trade_log) + 1].position_type # dir
    /\ IsOpenRow(trade_log'[Len(trade_log) + 2], CurRow', dir)
    /\ LegsOpenAs(short_pos', long_pos', CurRow', dir)
    /\ pc' = "loop"

\* C4: same-day flip.  On a processed day with a pair open, no stop-loss and
\* |z| > g asking for the opposite direction, exactly two rows dated that day
\* are appended, a CLOSE 'Standard' then an OPEN of the desired direction at
\* the day's prices and N_t / 100 per leg, and the pair ends open that way.
C4_Flip ==
    [][(NoStopDay /\ BothOpen)
        => /\ (RLt(g, z') /\ short_pos.name = "xlp") => FlippedTo("short")
           /\ (RLt(z', RNeg(g)) /\ short_pos.name = "kxi") => FlippedTo("long")]_vars

\* The last two rows are a CLOSE 'Standard' and an OPEN of the same day.
C4_Witness ==
    /\ pc = "loop" /\ Len(trade_log) >= 3
    /\ LastRow.position_status = "OPEN" /\ LastRow.date = date
    /\ trade_log[Len(trade_log) - 1].position_status = "CLOSE"
    /\ trade_log[Len(trade_log) - 1].Reason = "Standard"
    /\ trade_log[Len(trade_log) - 1].date = date
    /\ BothOpen

\* C5: simulate returns with both legs closed; a pair still open after the
\* last day gets exactly one more CLOSE row, reason 'Standard', dated the last
\* row's date at the last row's prices; with no pair open nothing is appended.
C5_EndOfSeries ==
    [][(pc = "loop" /\ i' = i /\ pc' # "loop")
        => /\ pc' = "done"
           /\ BothClosed'
           /\ IF is_open(short_pos) \/ is_open(long_pos)
              THEN /\ Appended(1)
                   /\ IsCloseRow(LastRow', CurRow, "Standard")
                   /\ LastRow'.kxi_price = CurRow.KXI_adj_close
                   /\ LastRow'.xlp_price = CurRow.XLP_adj_close
              ELSE trade_log' = trade_log]_vars

\* simulate has returned after force-closing the pair left open.
C5_Witness ==
    /\ pc = "done" /\ step = "end_close"
    /\ LastRow.position_status = "CLOSE" /\ LastRow.Reason = "Standard"
    /\ LastRow.date = CurRow.date
    /\ trade_log[Len(trade_log) - 1].position_status = "OPEN"
    /\ BothClosed

\* The step opens a pair of direction dir and does nothing else.
EnteredAs(dir) ==
    /\ Appended(1)
    /\ IsOpenRow(LastRow', CurRow', dir)
    /\ LegsOpenAs(short_pos', long_pos', CurRow', dir)
    /\ pc' = "loop"

\* C6: entry.  On a processed day with no pair open, z > g appends exactly
\* one OPEN row of type short (short leg kxi, long leg xlp) and z < -g exactly
\* one of type long (long leg kxi, short leg xlp); each leg has entry_cash =
\* N_t / 100 at the day's price and the row's gross_cash is 2 * N_t / 100.
C6_Entry ==
    [][(NoStopDay /\ BothClosed)
        => /\ RLt(g, z') => EnteredAs("short")
           /\ RLt(z', RNeg(g)) => EnteredAs("long")]_vars

\* The first trade of the run, a long spread, was opened today.
C6_Witness ==
    /\ pc = "loop" /\ Len(trade_log) = 1
    /\ LastRow.position_status = "OPEN" /\ LastRow.position_type = "long"
    /\ LastRow.date = date
    /\ long_pos.name = "kxi" /\ short_pos.name = "xlp"
    /\ RLt(z, RNeg(g))

\* The step leaves the ledger and both positions as they were.
Held == trade_log' = trade_log /\ long_pos' = long_pos /\ short_pos' = short_pos

\* z of the day read asks for the direction of the pair that is open.
SameDirection ==
    \/ RLt(g, z') /\ short_pos.name = "kxi"
    \/ RLt(z', RNeg(g)) /\ short_pos.name = "xlp"

\* C7 as stated: no row and no change when (a) j <= |z| <= g, or (b) |z| < j
\* and no pair is open, or (c) |z| > g and a pair is open in the direction z
\* asks for.
C7_HoldAsStated ==
    [][NoStopDay
        => /\ (RLe(j, RAbs(z')) /\ RLe(RAbs(z'), g)) => Held
           /\ (RLt(RAbs(z'), j) /\ BothClosed) => Held
           /\ (RLt(g, RAbs(z')) /\ BothOpen /\ SameDirection) => Held]_vars

\* C7 amended: case (b) also needs |z| <= g (with j > g a day with
\* g < |z| < j and no pair open is an entry).
C7_Hold ==
    [][NoStopDay
        => /\ (RLe(j, RAbs(z')) /\ RLe(RAbs(z'), g)) => Held
           /\ (RLt(RAbs(z'), j) /\ RLe(RAbs(z'), g) /\ BothClosed) => Held
           /\ (RLt(g, RAbs(z')) /\ BothOpen /\ SameDirection) => Held]_vars

\* A processed day below both thresholds with nothing open and nothing done.
C7_Witness ==
    /\ pc = "loop" /\ date >= 20220101 /\ CurRow.date = date
    /\ kxi = CurRow.KXI_adj_close /\ xlp = CurRow.XLP_adj_close
    /\ trade_log = <<>> /\ BothClosed
    /\ z # NaNPnl /\ RLt(RAbs(z), j) /\ RLe(RAbs(z), g)

\* C8: exit.  On a processed day with a pair open, no stop-loss, |z| < j and
\* |z| <= g, exactly one CLOSE 'Standard' row is appended, both legs end
\* closed and nothing is opened; on a day with |z| > g the pair is not
\* flattened (it is held or flipped).
C8_Exit ==
    [][(NoStopDay /\ BothOpen)
        => /\ (RLt(RAbs(z'), j) /\ RLe(RAbs(z'), g))
                => /\ Appended(1)
                   /\ IsCloseRow(LastRow', CurRow', "Standard")
                   /\ BothClosed'
                   /\ pc' = "loop"
           /\ RLt(g, RAbs(z')) => BothOpen']_vars

\* The pair was flattened today on |z| < j.
C8_Witness ==
    /\ pc = "loop" /\ Len(trade_log) >= 2
    /\ LastRow.position_status = "CLOSE" /\ LastRow.Reason = "Standard"
    /\ LastRow.date = date
    /\ RLt(RAbs(z), j) /\ RLe(RAbs(z), g)
    /\ BothClosed

\* C9: warm-up.  A day before 2022-01-01 changes neither positions, cool-down
\* nor ledger; no ledger row and no open position is dated before 2022-01-01.
C9_WarmUp ==
    [][/\ (DayRead /\ CurRow'.date < 20220101)
            => (Held /\ stop_loss_date' = stop_loss_date)
       /\ \A n \in 1..Len(trade_log') : trade_log'[n].date >= 20220101
       /\ is_open(long_pos') => long_pos'.date >= 20220101
       /\ is_open(short_pos') => short_pos'.date >= 20220101]_vars

\* Two days before the activation date were read and nothing has happened.
C9_Witness ==
    /\ pc = "loop" /\ i = 2 /\ date = 20211231 /\ step = "warmup"
    /\ trade_log = <<>> /\ BothClosed /\ stop_loss_date = EmptyDate

\* The pnl of the open pair at prices k, x: each leg valued at the price of
\* the instrument it holds, the sum scaled by (1 - zeta).
TotalPnl(sp, lp, k, x) ==
    LET val(pos) == pos.type * pos.amount * (IF pos.name = "kxi" THEN k ELSE x)
                    - pos.type * pos.entry_cash
    IN  <<(val(sp) + val(lp)) * (zeta[2] - zeta[1]), zeta[2]>>

\* The stop-loss condition of the claim for a non-null fraction ss.
LossBeyond(sp, lp, k, x, ss) ==
    LET total == TotalPnl(sp, lp, k, x)
    IN  /\ total[1] < 0
        /\ Abs(total[1]) * ss[2] > ss[1] * (2 * sp.entry_cash) * total[2]

\* C10: for two open legs and every non-null s >= 0 (s = 0 included),
\* get_pnls gives the stop-loss result (pnl 0) exactly when total_pnl < 0 and
\* |total_pnl| / (2 * short entry_cash) > s; otherwise, and always for a
\* null s, it gives the no-stop-loss result with pnl = total_pnl.
C10_TriggerCondition ==
    BothOpen =>
        \A k \in KxiPriceSet : \A x \in XlpPriceSet :
            LET res == get_pnls(short_pos, long_pos, k, x, zeta, s)
                hit == s # None /\ LossBeyond(short_pos, long_pos, k, x, s)
            IN  /\ res.err = ""
                /\ hit => (~res.flag /\ res.pnl = <<0, 1>>)
                /\ (~hit) => (res.flag /\ res.pnl = TotalPnl(short_pos, long_pos, k, x))

\* C11: the boolean get_pnls returns first answers "was the stop-loss
\* condition met?": for an open pair at any prices it is true with pnl 0 when
\* the loss exceeds the fraction s of gross cash, and false with
\* pnl = total_pnl when it does not.
C11_FlagIsTriggered ==
    BothOpen =>
        \A k \in KxiPriceSet : \A x \in XlpPriceSet :
            LET res == get_pnls(short_pos, long_pos, k, x, zeta, s)
                met == Truthy(s) /\ LossBeyond(short_pos, long_pos, k, x, s)
            IN  /\ met => (res.flag /\ res.pnl = <<0, 1>>)
                /\ (~met) => (~res.flag /\ res.pnl = TotalPnl(short_pos, long_pos, k, x))

\* C12: an open Position, long or short, valued at the price it was opened
\* at has pnl 0.
C12_ZeroAtEntry ==
    \A pos \in {long_pos, short_pos} :
        is_open(pos) => get_pnl(pos, pos.price) = 0

\* The step is the client's call op.
Called(op) == pc = "client" /\ call'.op = op

\* C13: valuing a leg that is not open fails fast: get_pnl called on a closed
\* Position (never opened, or just closed) raises instead of returning a
\* value, and get_pnls raises when either leg is not open.
C13_FailsFast ==
    [][/\ (Called("get_pnl") /\ Closed(Leg(call'.leg))) => err' # ""
       /\ (Called("get_pnls") /\ ~BothOpen) => err' # ""]_vars

\* pos has every field but the direction at its empty sentinel.
FullyClosed(pos) ==
    /\ pos.name = EmptyName /\ pos.date = EmptyDate
    /\ pos.entry_cash = NaN /\ pos.price = NaN /\ pos.amount = NaN

\* The leg as the step leaves it.
LegAfter(leg) == IF leg = "long" THEN long_pos' ELSE short_pos'

\* C14: lifecycle errors leave state unchanged.  open on an open Position
\* raises and keeps every field; close on a closed Position raises and keeps
\* it closed; open with a name other than 'kxi', 'xlp' raises and leaves a
\* closed Position closed with no field set; open_positions with a direction
\* other than 'long', 'short' raises with both legs and the ledger untouched.
C14_ErrorsKeepState ==
    [][/\ (Called("open") /\ is_open(Leg(call'.leg)))
            => (err' # "" /\ Held)
       /\ (Called("close") /\ Closed(Leg(call'.leg)))
            => (err' # "" /\ Held /\ FullyClosed(LegAfter(call'.leg)))
       /\ (Called("open") /\ Closed(Leg(call'.leg)) /\ call'.name \notin {"kxi", "xlp"})
            => (err' # "" /\ Held /\ FullyClosed(LegAfter(call'.leg)))
       /\ (Called("open_positions") /\ call'.position_type \notin {"long", "short"})
            => (err' # "" /\ Held)]_vars

\* open with an unknown name has just been refused on a closed leg while the
\* other leg is open.
C14_Witness ==
    /\ pc = "client" /\ call # None
    /\ call.op = "open" /\ call.name = "spy" /\ err = "ValueError"
    /\ Closed(Leg(call.leg))
    /\ \E other \in ApiLegs \ {call.leg} : is_open(Leg(other))

\* pos has every field set, the quantity being round(entry_cash / price).
FullyOpen(pos) ==
    /\ pos.name \in {"kxi", "xlp"} /\ pos.date # EmptyDate
    /\ pos.entry_cash # NaN /\ pos.price # NaN /\ pos.amount # NaN
    /\ pos.amount = RoundDiv(pos.entry_cash, pos.price)

\* C15: whatever open and close calls are made on it, succeeding or failing,
\* a Position is fully open or fully closed, is_open() tells which, its
\* direction never changes, and its successful opens and closes alternate
\* starting with an open: it starts closed, it changes only from closed to
\* fully open or from open to fully closed, a successful open finds it closed
\* and a successful close finds it open.
C15_Lifecycle ==
    /\ FullyClosed(long_pos) /\ FullyClosed(short_pos)
    /\ [][/\ \A leg \in ApiLegs :
                  /\ FullyOpen(LegAfter(leg)) \/ FullyClosed(LegAfter(leg))
                  /\ is_open(LegAfter(leg)) <=> FullyOpen(LegAfter(leg))
                  /\ LegAfter(leg).type = Leg(leg).type
                  /\ LegAfter(leg) # Leg(leg)
                       => \/ Closed(Leg(leg)) /\ FullyOpen(LegAfter(leg))
                          \/ is_open(Leg(leg)) /\ FullyClosed(LegAfter(leg))
          /\ (Called("open") /\ err' = "")
              => (Closed(Leg(call'.leg)) /\ FullyOpen(LegAfter(call'.leg)))
          /\ (Called("close") /\ err' = "")
              => (is_open(Leg(call'.leg)) /\ FullyClosed(LegAfter(call'.leg)))]_vars

\* The long leg has just been closed by a successful close while the short
\* leg stays open.
C15_Witness ==
    /\ pc = "client" /\ call # None
    /\ call.op = "close" /\ call.leg = "long" /\ err = ""
    /\ FullyClosed(long_pos) /\ FullyOpen(short_pos)

\* The sum of the two leg pnls a CLOSE row r stands for, from the row alone:
\* the kxi leg and the xlp leg each entered with gross_cash / 2, the kxi leg
\* short in a short spread and long in a long spread.
RowLegSum(r) ==
    LET dir == IF r.position_type = "short" THEN -1 ELSE 1
    IN  dir * (r.kxi_amount * r.kxi_price - r.xlp_amount * r.xlp_price)

\* C16: close_positions never zeroes the pnl of a close.  Every CLOSE row has
\* pnl = (pnl_short + pnl_long) * (1 - zeta) at the row's prices, and every
\* 'STOP LOSS' row records the loss that triggered it: pnl < 0 and
\* |pnl| / gross_cash > s.
C16_ClosePnl ==
    \A n \in 1..Len(trade_log) :
        LET r == trade_log[n]
        IN  r.position_status = "CLOSE"
            => /\ r.pnl[2] > 0
               /\ r.pnl[1] * zeta[2] = RowLegSum(r) * (zeta[2] - zeta[1]) * r.pnl[2]
               /\ r.Reason = "STOP LOSS"
                   => /\ r.pnl[1] < 0
                      /\ s # None
                      /\ Abs(r.pnl[1]) * s[2] > s[1] * r.gross_cash * r.pnl[2]

\* The run ended on a stop-loss close made under a 10% transaction cost.
C16_Witness ==
    /\ pc = "done" /\ trade_log # <<>>
    /\ LastRow.Reason = "STOP LOSS" /\ LastRow.pnl[1] < 0
    /\ zeta = <<1, 10>>

\* The open leg of the pair that holds the instrument name.
Holder(name) == IF short_pos.name = name THEN short_pos ELSE long_pos

\* The step appends a CLOSE row as its first new row.
ClosesPair ==
    /\ Len(trade_log') > Len(trade_log)
    /\ trade_log'[Len(trade_log) + 1].position_status = "CLOSE"

\* C17: price resolution, for both spread directions.  get_pnls values each
\* open leg at the price of the instrument it holds (kxi leg at kxi_price,
\* xlp leg at xlp_price), and a CLOSE row carries that valuation at the
\* row's prices, the quantity of the leg holding kxi as kxi_amount and the
\* quantity of the leg holding xlp as xlp_amount.
C17_PriceResolution ==
    [][/\ BothOpen
            => \A k \in KxiPriceSet : \A x \in XlpPriceSet :
                   get_pnls(short_pos, long_pos, k, x, zeta, None).pnl
                       = TotalPnl(short_pos, long_pos, k, x)
       /\ ClosesPair
            => LET r == trade_log'[Len(trade_log) + 1]
               IN  /\ BothOpen
                   /\ r.pnl = TotalPnl(short_pos, long_pos, r.kxi_price, r.xlp_price)
                   /\ r.kxi_amount = Holder("kxi").amount
                   /\ r.xlp_amount = Holder("xlp").amount]_vars

\* A long spread (long leg kxi, short leg xlp) was closed at prices that
\* differ between the instruments, the legs holding different quantities.
C17_Witness ==
    /\ trade_log # <<>>
    /\ LastRow.position_status = "CLOSE" /\ LastRow.position_type = "long"
    /\ LastRow.kxi_price # LastRow.xlp_price
    /\ LastRow.kxi_amount # LastRow.xlp_amount
    /\ LastRow.pnl[1] # 0

\* C18: pair synchronisation.  Between the days of simulate (before the
\* first, after each, and at the return) the two legs are both closed or both
\* open; when open one holds kxi and the other xlp, and they have the same
\* open date and the same entry_cash.
C18_PairSync ==
    /\ BothClosed \/ BothOpen
    /\ BothOpen
        => /\ {long_pos.name, short_pos.name} = {"kxi", "xlp"}
           /\ long_pos.date = short_pos.date
           /\ long_pos.entry_cash = short_pos.entry_cash

\* A pair opened today with entry_cash 15 per leg, at prices that give the
\* two legs different quantities.
C18_Witness ==
    /\ pc = "loop" /\ BothOpen
    /\ long_pos.date = date /\ long_pos.entry_cash = 15
    /\ long_pos.amount # short_pos.amount

\* The ledger log is well formed: dates never decrease, rows alternate OPEN,
\* CLOSE starting with OPEN, and each CLOSE row repeats the position_type,
\* gross_cash, kxi_amount and xlp_amount of the OPEN row before it.
WellFormed(log) ==
    /\ \A n \in 2..Len(log) : log[n].date >= log[n - 1].date
    /\ \A n \in 1..Len(log) :
           log[n].position_status = IF n % 2 = 1 THEN "OPEN" ELSE "CLOSE"
    /\ \A n \in 2..Len(log) :
           log[n].position_status = "CLOSE"
           => /\ log[n].position_type = log[n - 1].position_type
              /\ log[n].gross_cash = log[n - 1].gross_cash
              /\ log[n].kxi_amount = log[n - 1].kxi_amount
              /\ log[n].xlp_amount = log[n - 1].xlp_amount

\* C19: ledger shape.  Every step of simulate only appends rows; the ledger
\* stays well formed (dates non-decreasing, OPEN and CLOSE alternating from
\* OPEN, each CLOSE matching its OPEN in type, gross cash and amounts); a pair
\* is open exactly when the last row is an OPEN; and the ledger returned is
\* empty or ends with a CLOSE.
C19_LedgerShape ==
    [][/\ Len(trade_log') >= Len(trade_log)
       /\ SubSeq(trade_log', 1, Len(trade_log)) = trade_log
       /\ WellFormed(trade_log')
       /\ BothOpen' <=> (trade_log' # <<>> /\ LastRow'.position_status = "OPEN")
       /\ (~BothOpen') => BothClosed'
       /\ pc' = "done"
            => (trade_log' = <<>> \/ LastRow'.position_status = "CLOSE")]_vars

\* simulate has returned a ledger of two trades, the second opened on the
\* day the first was closed.
C19_Witness ==
    /\ pc = "done" /\ Len(trade_log) = 4
    /\ trade_log[2].date = trade_log[3].date
    /\ trade_log[4].date > trade_log[3].date

\* C20: simulate never trips a fail-fast check.  No step raises the
\* AssertionError or ValueError of Position.open, Position.close, get_pnls or
\* open_positions; every leg holds 'kxi' or 'xlp' or nothing and every row is
\* of direction 'long' or 'short'.
C20_NeverFailsFast ==
    /\ err \notin {"AssertionError", "ValueError"}
    /\ \A pos \in {long_pos, short_pos} : pos.name \in {EmptyName, "kxi", "xlp"}
    /\ \A n \in 1..Len(trade_log) : trade_log[n].position_type \in {"long", "short"}

\* simulate has returned without error a ledger of two trades of opposite
\* directions, the second closed before the series ended.
C20_Witness ==
    /\ pc = "done" /\ err = "" /\ step = "end"
    /\ Len(trade_log) = 4
    /\ trade_log[1].position_type # trade_log[3].position_type

====
